---- MODULE Spec2Model ----
(***************************************************************************)
(* Model of halcon2coco_voc.py: parse_halcon_annotation, convert_to_voc    *)
(* and convert_to_coco.                                                    *)
(*                                                                         *)
(* Text (file names, the text of XML fields, the text of trainval.txt) is  *)
(* a sequence of one-character strings, so that endswith, splitext, int,   *)
(* str, join and line splitting are computed the way Python computes them. *)
(* Class names are only ever compared for equality and stay TLA+ strings.  *)
(***************************************************************************)
EXTENDS Integers, Sequences, FiniteSets, TLC

\* ------------------------------------------------------------------ bounds
\* Longest directory listing of img_dir.
MaxFiles == 3
\* Most <object> elements in one annotation file.
MaxObjs == 2

\* ------------------------------------------------------------ text helpers
Range(s) == {s[k] : k \in 1..Len(s)}

UpperChars == <<"A","B","C","D","E","F","G","H","I","J","K","L","M",
                "N","O","P","Q","R","S","T","U","V","W","X","Y","Z">>
LowerChars == <<"a","b","c","d","e","f","g","h","i","j","k","l","m",
                "n","o","p","q","r","s","t","u","v","w","x","y","z">>

\* str.lower() on one character.
LowerChar(c) ==
    IF c \in Range(UpperChars)
    THEN LowerChars[CHOOSE k \in 1..Len(UpperChars) : UpperChars[k] = c]
    ELSE c

\* str.lower()
Lower(s) == [k \in 1..Len(s) |-> LowerChar(s[k])]

\* str.endswith(suf)
EndsWith(s, suf) ==
    /\ Len(s) >= Len(suf)
    /\ SubSeq(s, Len(s) - Len(suf) + 1, Len(s)) = suf

\* The tuple of suffixes of lines 56 and 142.
ImageSuffixes == { <<".","p","n","g">>, <<".","j","p","g">>, <<".","j","p","e","g">> }

\* A filter that forgets lower().
NoLowerAccepted(f) == \E suf \in ImageSuffixes : EndsWith(f, suf)
\* The negation of the `continue` condition of lines 56 and 142.
Accepted(f) == \E suf \in ImageSuffixes : EndsWith(Lower(f), suf)

\* str.rfind(".") as a 1-based position, 0 when there is no dot.
RFindDot(s) ==
    IF \E k \in 1..Len(s) : s[k] = "."
    THEN CHOOSE k \in 1..Len(s) : s[k] = "." /\ \A m \in (k+1)..Len(s) : s[m] # "."
    ELSE 0

\* os.path.splitext(p)[0] for a name without a directory separator: cut at
\* the last dot unless only dots precede it.
SplitextRoot(p) ==
    LET d == RFindDot(p) IN
    IF d > 0 /\ \E k \in 1..(d-1) : p[k] # "."
    THEN SubSeq(p, 1, d - 1)
    ELSE p

DigitChars == <<"0","1","2","3","4","5","6","7","8","9">>
IsDigit(c) == c \in Range(DigitChars)
DigitVal(c) == (CHOOSE k \in 1..Len(DigitChars) : DigitChars[k] = c) - 1

\* str.strip() for blanks.
RECURSIVE LStrip(_)
LStrip(s) == IF s # <<>> /\ Head(s) = " " THEN LStrip(Tail(s)) ELSE s
RECURSIVE RStrip(_)
RStrip(s) == IF s # <<>> /\ s[Len(s)] = " " THEN RStrip(SubSeq(s, 1, Len(s) - 1)) ELSE s
Strip(s) == RStrip(LStrip(s))

\* The digits of an int literal once blanks and the sign are removed.
Unsigned(s) ==
    LET t == Strip(s) IN
    IF t # <<>> /\ Head(t) \in {"+", "-"} THEN Tail(t) ELSE t

\* int(text) raises ValueError unless this holds.
IsIntLiteral(s) ==
    /\ Unsigned(s) # <<>>
    /\ \A k \in 1..Len(Unsigned(s)) : IsDigit(Unsigned(s)[k])

RECURSIVE DigitsValue(_)
DigitsValue(d) ==
    IF d = <<>> THEN 0
    ELSE 10 * DigitsValue(SubSeq(d, 1, Len(d) - 1)) + DigitVal(d[Len(d)])

\* int(text) for a literal.
PyInt(s) ==
    LET t == Strip(s) IN
    IF Head(t) = "-" THEN 0 - DigitsValue(Unsigned(s)) ELSE DigitsValue(Unsigned(s))

RECURSIVE NatToStr(_)
NatToStr(n) ==
    IF n < 10 THEN <<DigitChars[n + 1]>>
    ELSE NatToStr(n \div 10) \o <<DigitChars[(n % 10) + 1]>>

\* A str that drops the sign.
UnsignedPyStr(n) == IF n < 0 THEN NatToStr(0 - n) ELSE NatToStr(n)
\* str(n) for an int.
PyStr(n) == IF n < 0 THEN <<"-">> \o NatToStr(0 - n) ELSE NatToStr(n)

\* sep.join(items) with sep = "\n".
RECURSIVE JoinLines(_)
JoinLines(items) ==
    IF items = <<>> THEN <<>>
    ELSE IF Len(items) = 1 THEN items[1]
    ELSE items[1] \o <<"\n">> \o JoinLines(Tail(items))

\* ------------------------------------------------------- the input files
\* Names that os.listdir(img_dir) may return.
F_a_jpg  == <<"a",".","j","p","g">>
F_a_PNG  == <<"a",".","P","N","G">>
F_b_jpeg == <<"b",".","j","p","e","g">>
F_c_txt  == <<"c",".","t","x","t">>
FileNames == {F_a_jpg, F_a_PNG, F_b_jpeg, F_c_txt}

\* os.listdir(img_dir): distinct names, in any order.
Listings ==
    UNION {{s \in [1..n -> FileNames] : \A p, q \in 1..n : p # q => s[p] # s[q]}
           : n \in 0..MaxFiles}

\* Image.open(img_path).size of a readable image: (width, height).
PixelSize(f) ==
    IF f = F_a_jpg THEN <<100, 50>>
    ELSE IF f = F_a_PNG THEN <<640, 480>>
    ELSE <<7, 3>>

\* <object> elements an annotation file may hold.  The text of a corner
\* is what ElementTree returns for it; a bndbox without a key lacks that
\* element.
ObjCat ==
    [name |-> "cat",
     bndbox |-> [x1 |-> <<"1","0">>, y1 |-> <<"1","0">>,
                 x2 |-> <<"6","0">>, y2 |-> <<"4","0">>]]
ObjDog ==
    [name |-> "dog",
     bndbox |-> [x1 |-> <<"+","7">>, y1 |-> <<"-","3">>,
                 x2 |-> <<"0","2">>, y2 |-> <<" ","9">>]]
ObjNonInt ==
    [name |-> "cat",
     bndbox |-> [x1 |-> <<"1">>, y1 |-> <<"1">>,
                 x2 |-> <<"1",".","5">>, y2 |-> <<"2">>]]
ObjNoY2 ==
    [name |-> "cat",
     bndbox |-> [x1 |-> <<"1">>, y1 |-> <<"1">>, x2 |-> <<"2">>]]
ObjectPool == {ObjCat, ObjDog, ObjNonInt, ObjNoY2}

\* What <ann_dir>/<id>.xml may be: absent, or a file with its <object>s.
AbsentFile == [state |-> "absent"]
UnreadFile == [state |-> "unread"]
AnnFiles ==
    {AbsentFile} \cup
    {[state |-> "file", objects |-> s] :
        s \in UNION {[1..n -> ObjectPool] : n \in 0..MaxObjs}}

\* The class_names lists a caller may pass.
ClassLists ==
    { <<"cat", "dog">>, <<"cat">>, <<"dog", "cat", "dog">> }

\* ------------------------------------------------ parse_halcon_annotation
CornerKeys == <<"x1", "y1", "x2", "y2">>

\* The exception lines 30-38 raise for one <object>, "none" if none:
\* the corners are read in the order x1, y1, x2, y2.
CornerError(o, key) ==
    IF key \notin DOMAIN o.bndbox THEN "AttributeError"
    ELSE IF ~IsIntLiteral(o.bndbox[key]) THEN "ValueError"
    ELSE "none"
ObjError(o) ==
    LET bad == {k \in 1..Len(CornerKeys) : CornerError(o, CornerKeys[k]) # "none"} IN
    IF bad = {} THEN "none"
    ELSE CornerError(o, CornerKeys[CHOOSE k \in bad : \A m \in bad : k <= m])

\* obj_info of lines 30-38.
ObjInfo(o) ==
    [name |-> o.name,
     bndbox |-> [x1 |-> PyInt(o.bndbox.x1), y1 |-> PyInt(o.bndbox.y1),
                 x2 |-> PyInt(o.bndbox.x2), y2 |-> PyInt(o.bndbox.y2)]]

\* A parser that reads root.find('object') only.
ParseFirstObjectOnly(objs) ==
    IF objs = <<>> THEN [err |-> "none", anns |-> <<>>]
    ELSE IF ObjError(objs[1]) # "none" THEN [err |-> ObjError(objs[1]), anns |-> <<>>]
    ELSE [err |-> "none", anns |-> <<ObjInfo(objs[1])>>]
\* The loop of lines 28-40 over root.findall('object'): the first
\* <object> that raises ends the parse.
ParseObjects(objs) ==
    LET bad == {k \in 1..Len(objs) : ObjError(objs[k]) # "none"} IN
    IF bad = {}
    THEN [err |-> "none", anns |-> [k \in 1..Len(objs) |-> ObjInfo(objs[k])]]
    ELSE [err |-> ObjError(objs[CHOOSE k \in bad : \A m \in bad : k <= m]),
          anns |-> <<>>]

\* parse_halcon_annotation(ann_path): ET.parse raises when the file is
\* absent.
ParseHalconAnnotation(file) ==
    IF file.state = "absent"
    THEN [err |-> "FileNotFoundError", anns |-> <<>>]
    ELSE ParseObjects(file.objects)

\* ------------------------------------------------------------------ state
VARIABLES
    listing,       \* os.listdir(img_dir)
    class_names,   \* the class_names argument
    annDir,        \* ann_dir: root name -> its .xml file, fixed when first opened
    pc,            \* "start", "loop", "anns", "done" or "error"
    err,           \* the exception that ended the run, "none" if none
    i,             \* entries of the listing enumerated so far
    coco,          \* convert_to_coco: the coco dict
    category_ids,  \* convert_to_coco: the name -> id dict
    ann_id,        \* convert_to_coco: the annotation counter
    anns,          \* convert_to_coco: `annotations` of the current image
    j,             \* convert_to_coco: position of the inner loop in anns
    width,         \* convert_to_coco: local `width`
    height,        \* convert_to_coco: local `height`
    outFile,       \* the file at output_path
    image_ids,     \* convert_to_voc: the image_ids list
    dirs,          \* convert_to_voc: directories made under output_dir
    vocFiles,      \* output_dir/Annotations: id -> document written
    vocWritten,    \* ids of the Annotations files written, in order
    trainval       \* output_dir/ImageSets/Main/trainval.txt

commonVars == <<listing, class_names, annDir, pc, err, i>>
cocoVars == <<coco, category_ids, ann_id, anns, j, width, height, outFile>>
vocVars == <<image_ids, dirs, vocFiles, vocWritten, trainval>>
vars == <<commonVars, cocoVars, vocVars>>

\* Root names of the annotation files the listing can ask for.
Roots == {SplitextRoot(f) : f \in FileNames}

EmptyMap == [x \in {} |-> 0]
NotWritten == [written |-> FALSE]

Init ==
    /\ listing \in Listings
    /\ class_names \in ClassLists
    /\ annDir = [r \in Roots |-> UnreadFile]
    /\ pc = "start"
    /\ err = "none"
    /\ i = 0
    /\ coco = [categories |-> <<>>, images |-> <<>>, annotations |-> <<>>]
    /\ category_ids = EmptyMap
    /\ ann_id = 0
    /\ anns = <<>>
    /\ j = 0
    /\ width = 0
    /\ height = 0
    /\ outFile = NotWritten
    /\ image_ids = <<>>
    /\ dirs = {}
    /\ vocFiles = EmptyMap
    /\ vocWritten = <<>>
    /\ trainval = NotWritten

\* The file ET.parse finds at <ann_dir>/<root>.xml: any file the first time
\* the path is opened, the same file afterwards.
FilesAt(root) ==
    IF annDir[root].state = "unread" THEN AnnFiles ELSE {annDir[root]}

\* The run stops with exception e.
Raise(e) ==
    /\ pc' = "error"
    /\ err' = e

\* -------------------------------------------------------- convert_to_coco
\* Lines 130-135.
Categories(cn) ==
    [k \in 1..Len(cn) |-> [id |-> k, name |-> cn[k], supercategory |-> "none"]]

\* Line 138: a later occurrence of a name overwrites an earlier one.
CategoryIds(cn) ==
    [n \in Range(cn) |->
        CHOOSE k \in 1..Len(cn) : cn[k] = n /\ \A m \in (k+1)..Len(cn) : cn[m] # n]

\* A width clamped at zero.
ClampedBoxWidth(x1, x2) == IF x2 < x1 THEN 0 ELSE x2 - x1
\* Lines 172 and 173.
BoxWidth(x1, x2) == x2 - x1
BoxHeight(y1, y2) == y2 - y1

\* A counter whose increment is forgotten.
StuckAnnId(a) == a
\* Line 184.
NextAnnId(a) == a + 1

\* Lines 150-159.
ImageInfo(id, f, size) ==
    [id |-> id, file_name |-> f, width |-> size[1], height |-> size[2], license |-> 0]

\* Lines 175-183.
CocoAnnotation(id, img, ann, w, h) ==
    [id |-> id,
     image_id |-> img,
     category_id |-> category_ids[ann.name],
     bbox |-> <<ann.bndbox.x1, ann.bndbox.y1, w, h>>,
     area |-> w * h,
     iscrowd |-> 0]

\* Lines 121-140.
CocoStart ==
    /\ pc = "start"
    /\ coco' = [coco EXCEPT !.categories = Categories(class_names)]
    /\ category_ids' = CategoryIds(class_names)
    /\ ann_id' = 1
    /\ pc' = "loop"
    /\ UNCHANGED <<listing, class_names, annDir, err, i, anns, j, width, height,
                   outFile, vocVars>>

\* Lines 141-143: the entry is not an image.
CocoSkip ==
    /\ pc = "loop"
    /\ i < Len(listing)
    /\ ~Accepted(listing[i + 1])
    /\ i' = i + 1
    /\ UNCHANGED <<listing, class_names, annDir, pc, err, cocoVars, vocVars>>

\* Lines 146-148: Image.open raises.
CocoImageUnreadable ==
    /\ pc = "loop"
    /\ i < Len(listing)
    /\ Accepted(listing[i + 1])
    /\ i' = i + 1
    /\ Raise("OSError")
    /\ UNCHANGED <<listing, class_names, annDir, cocoVars, vocVars>>

\* Lines 141-164 for an image whose annotation file parses.
CocoImage ==
    /\ pc = "loop"
    /\ i < Len(listing)
    /\ Accepted(listing[i + 1])
    /\ \E file \in FilesAt(SplitextRoot(listing[i + 1])) :
        LET f == listing[i + 1]
            parsed == ParseHalconAnnotation(file)
        IN  /\ parsed.err = "none"
            /\ annDir' = [annDir EXCEPT ![SplitextRoot(f)] = file]
            /\ i' = i + 1
            /\ width' = PixelSize(f)[1]
            /\ height' = PixelSize(f)[2]
            /\ coco' = [coco EXCEPT
                           !.images = Append(@, ImageInfo(i + 1, f, PixelSize(f)))]
            /\ anns' = parsed.anns
            /\ j' = 1
            /\ pc' = IF parsed.anns = <<>> THEN "loop" ELSE "anns"
    /\ UNCHANGED <<listing, class_names, err, category_ids, ann_id, outFile, vocVars>>

\* Lines 141-164 for an image whose annotation file is absent or malformed.
CocoParseFail ==
    /\ pc = "loop"
    /\ i < Len(listing)
    /\ Accepted(listing[i + 1])
    /\ \E file \in FilesAt(SplitextRoot(listing[i + 1])) :
        LET f == listing[i + 1]
            parsed == ParseHalconAnnotation(file)
        IN  /\ parsed.err # "none"
            /\ annDir' = [annDir EXCEPT ![SplitextRoot(f)] = file]
            /\ i' = i + 1
            /\ width' = PixelSize(f)[1]
            /\ height' = PixelSize(f)[2]
            /\ coco' = [coco EXCEPT
                           !.images = Append(@, ImageInfo(i + 1, f, PixelSize(f)))]
            /\ Raise(parsed.err)
    /\ UNCHANGED <<listing, class_names, category_ids, ann_id, anns, j, outFile, vocVars>>

\* Lines 166-184 for one annotation of a known class.
CocoAnn ==
    /\ pc = "anns"
    /\ anns[j].name \in DOMAIN category_ids
    /\ LET ann == anns[j]
           w == BoxWidth(ann.bndbox.x1, ann.bndbox.x2)
           h == BoxHeight(ann.bndbox.y1, ann.bndbox.y2)
       IN  /\ width' = w
           /\ height' = h
           /\ coco' = [coco EXCEPT
                          !.annotations = Append(@, CocoAnnotation(ann_id, i, ann, w, h))]
    /\ ann_id' = NextAnnId(ann_id)
    /\ j' = j + 1
    /\ pc' = IF j = Len(anns) THEN "loop" ELSE "anns"
    /\ UNCHANGED <<listing, class_names, annDir, err, i, category_ids, anns, outFile,
                   vocVars>>

\* An unknown class that is skipped instead of raising.
CocoSkipUnknownCategory ==
    /\ pc = "anns"
    /\ anns[j].name \notin DOMAIN category_ids
    /\ j' = j + 1
    /\ pc' = IF j = Len(anns) THEN "loop" ELSE "anns"
    /\ UNCHANGED <<listing, class_names, annDir, err, i, coco, category_ids, ann_id,
                   anns, width, height, outFile, vocVars>>
\* Lines 166-178 for an annotation whose class is not in class_names:
\* category_ids[ann['name']] raises.
CocoUnknownCategory ==
    /\ pc = "anns"
    /\ anns[j].name \notin DOMAIN category_ids
    /\ width' = BoxWidth(anns[j].bndbox.x1, anns[j].bndbox.x2)
    /\ height' = BoxHeight(anns[j].bndbox.y1, anns[j].bndbox.y2)
    /\ Raise("KeyError")
    /\ UNCHANGED <<listing, class_names, annDir, i, coco, category_ids, ann_id, anns, j,
                   outFile, vocVars>>

\* Lines 186-188, after the last entry of the listing.
CocoDump ==
    /\ pc = "loop"
    /\ i = Len(listing)
    /\ outFile' = [written |-> TRUE, doc |-> coco]
    /\ pc' = "done"
    /\ UNCHANGED <<listing, class_names, annDir, err, i, coco, category_ids, ann_id,
                   anns, j, width, height, vocVars>>

NextCoco ==
    \/ CocoStart
    \/ CocoSkip
    \/ CocoImageUnreadable
    \/ CocoImage
    \/ CocoParseFail
    \/ CocoAnn
    \/ CocoUnknownCategory
    \/ CocoDump

\* A call of convert_to_coco.
SpecCoco == Init /\ [][NextCoco]_vars

\* --------------------------------------------------------- convert_to_voc
VocDirs == {"Annotations", "ImageSets/Main", "JPEGImages"}

\* Lines 87-97: the <object> block of one annotation.
VocObject(ann) ==
    [name |-> ann.name,
     pose |-> "Unspecified",
     truncated |-> <<"0">>,
     difficult |-> <<"0">>,
     bndbox |-> [xmin |-> PyStr(ann.bndbox.x1), ymin |-> PyStr(ann.bndbox.y1),
                 xmax |-> PyStr(ann.bndbox.x2), ymax |-> PyStr(ann.bndbox.y2)]]

\* Lines 70-97: the tree written to Annotations/<id>.xml.
VocDocument(f, size, parsedAnns) ==
    [folder |-> "VOC",
     filename |-> f,
     size |-> [width |-> PyStr(size[1]), height |-> PyStr(size[2]), depth |-> <<"3">>],
     objects |-> [k \in 1..Len(parsedAnns) |-> VocObject(parsedAnns[k])]]

\* Lines 50-54.
VocMakeDirs ==
    /\ pc = "start"
    /\ dirs' = VocDirs
    /\ image_ids' = <<>>
    /\ pc' = "loop"
    /\ UNCHANGED <<listing, class_names, annDir, err, i, cocoVars, vocFiles, vocWritten,
                   trainval>>

\* Lines 55-57: the entry is not an image.
VocSkip ==
    /\ pc = "loop"
    /\ i < Len(listing)
    /\ ~Accepted(listing[i + 1])
    /\ i' = i + 1
    /\ UNCHANGED <<listing, class_names, annDir, pc, err, cocoVars, vocVars>>

\* Lines 60-67: Image.open raises, after the id is appended.
VocImageUnreadable ==
    /\ pc = "loop"
    /\ i < Len(listing)
    /\ Accepted(listing[i + 1])
    /\ i' = i + 1
    /\ image_ids' = Append(image_ids, SplitextRoot(listing[i + 1]))
    /\ Raise("OSError")
    /\ UNCHANGED <<listing, class_names, annDir, cocoVars, dirs, vocFiles, vocWritten,
                   trainval>>

\* Lines 55-103 for an image whose annotation file parses.
VocImage ==
    /\ pc = "loop"
    /\ i < Len(listing)
    /\ Accepted(listing[i + 1])
    /\ \E file \in FilesAt(SplitextRoot(listing[i + 1])) :
        LET f == listing[i + 1]
            img_id == SplitextRoot(f)
            parsed == ParseHalconAnnotation(file)
            doc == VocDocument(f, PixelSize(f), parsed.anns)
        IN  /\ parsed.err = "none"
            /\ annDir' = [annDir EXCEPT ![img_id] = file]
            /\ i' = i + 1
            /\ image_ids' = Append(image_ids, img_id)
            /\ vocFiles' = [x \in DOMAIN vocFiles \cup {img_id} |->
                               IF x = img_id THEN doc ELSE vocFiles[x]]
            /\ vocWritten' = Append(vocWritten, img_id)
    /\ UNCHANGED <<listing, class_names, pc, err, cocoVars, dirs, trainval>>

\* A failure handler that still writes the list of ids.
VocParseFailFlush ==
    /\ pc = "loop"
    /\ i < Len(listing)
    /\ Accepted(listing[i + 1])
    /\ \E file \in FilesAt(SplitextRoot(listing[i + 1])) :
        /\ ParseHalconAnnotation(file).err # "none"
        /\ annDir' = [annDir EXCEPT ![SplitextRoot(listing[i + 1])] = file]
        /\ i' = i + 1
        /\ image_ids' = Append(image_ids, SplitextRoot(listing[i + 1]))
        /\ trainval' = [written |-> TRUE, text |-> JoinLines(image_ids')]
        /\ Raise(ParseHalconAnnotation(file).err)
    /\ UNCHANGED <<listing, class_names, cocoVars, dirs, vocFiles, vocWritten>>
\* Lines 55-84 for an image whose annotation file is absent or malformed.
VocParseFail ==
    /\ pc = "loop"
    /\ i < Len(listing)
    /\ Accepted(listing[i + 1])
    /\ \E file \in FilesAt(SplitextRoot(listing[i + 1])) :
        /\ ParseHalconAnnotation(file).err # "none"
        /\ annDir' = [annDir EXCEPT ![SplitextRoot(listing[i + 1])] = file]
        /\ i' = i + 1
        /\ image_ids' = Append(image_ids, SplitextRoot(listing[i + 1]))
        /\ Raise(ParseHalconAnnotation(file).err)
    /\ UNCHANGED <<listing, class_names, cocoVars, dirs, vocFiles, vocWritten, trainval>>

\* Lines 109-110, after the last entry of the listing.
VocTrainval ==
    /\ pc = "loop"
    /\ i = Len(listing)
    /\ trainval' = [written |-> TRUE, text |-> JoinLines(image_ids)]
    /\ pc' = "done"
    /\ UNCHANGED <<listing, class_names, annDir, err, i, cocoVars, image_ids, dirs,
                   vocFiles, vocWritten>>

NextVoc ==
    \/ VocMakeDirs
    \/ VocSkip
    \/ VocImageUnreadable
    \/ VocImage
    \/ VocParseFail
    \/ VocTrainval

\* A call of convert_to_voc, which never reads its class_names argument:
\* one list stands for all.
InitVoc == Init /\ class_names = <<"cat", "dog">>
SpecVoc == InitVoc /\ [][NextVoc]_vars

\* ------------------------------------------------- what the claims speak of
\* The entry's lower-cased name ends in .png, .jpg or .jpeg.
ImageExtensions == { <<"p","n","g">>, <<"j","p","g">>, <<"j","p","e","g">> }
HasImageExtension(f) ==
    \E k \in 1..Len(f) :
        /\ f[k] = "."
        /\ Lower(SubSeq(f, k + 1, Len(f))) \in ImageExtensions

\* Positions of the accepted image files in the listing.
AcceptedPositions == {k \in 1..Len(listing) : HasImageExtension(listing[k])}

\* The accepted image files of the first n entries, in listing order.
AcceptedPrefix(n) == SelectSeq(SubSeq(listing, 1, n), HasImageExtension)

\* The name of an accepted file without its extension.
BaseName(f) == SubSeq(f, 1, RFindDot(f) - 1)

\* The <object> elements of the annotation file matched to image file f.
FileObjects(f) == annDir[BaseName(f)].objects

\* The annotations of a COCO document that reference image id.
AnnsOfImage(doc, id) == SelectSeq(doc.annotations, LAMBDA a : a.image_id = id)

\* 1 + the index of name in cn, as list.index finds it.
FirstIndexPlusOne(cn, name) ==
    CHOOSE k \in 1..Len(cn) : cn[k] = name /\ \A m \in 1..(k-1) : cn[m] # name

\* The text of a file as its lines (str.splitlines for "\n").
RECURSIVE SplitLines(_)
SplitLines(text) ==
    IF text = <<>> THEN <<>>
    ELSE IF \E k \in 1..Len(text) : text[k] = "\n"
    THEN LET k == CHOOSE q \in 1..Len(text) :
                      text[q] = "\n" /\ \A m \in 1..(q-1) : text[m] # "\n"
         IN  <<SubSeq(text, 1, k - 1)>> \o SplitLines(SubSeq(text, k + 1, Len(text)))
    ELSE <<text>>

RECURSIVE SumObjects(_)
SumObjects(files) ==
    IF files = <<>> THEN 0
    ELSE Len(FileObjects(Head(files))) + SumObjects(Tail(files))

\* An <object> that makes the conversion of its image fail.
ObjectFails(o) ==
    \/ \E key \in {"x1", "y1", "x2", "y2"} :
           key \notin DOMAIN o.bndbox \/ ~IsIntLiteral(o.bndbox[key])
    \/ o.name \notin Range(class_names)

\* The annotation file of root r is absent or malformed for the parser.
ParseFails(r) ==
    \/ annDir[r].state = "absent"
    \/ /\ annDir[r].state = "file"
       /\ \E k \in 1..Len(annDir[r].objects) :
              \E key \in {"x1", "y1", "x2", "y2"} :
                  \/ key \notin DOMAIN annDir[r].objects[k].bndbox
                  \/ ~IsIntLiteral(annDir[r].objects[k].bndbox[key])

\* The boxes read back from a generated Annotations/<id>.xml.
ReadBack(doc) ==
    [k \in 1..Len(doc.objects) |->
        [name |-> doc.objects[k].name,
         bndbox |-> [x1 |-> PyInt(doc.objects[k].bndbox.xmin),
                     y1 |-> PyInt(doc.objects[k].bndbox.ymin),
                     x2 |-> PyInt(doc.objects[k].bndbox.xmax),
                     y2 |-> PyInt(doc.objects[k].bndbox.ymax)]]]

\* ----------------------------------------------------------------- claims
\* C1: the k-th accepted image file in listing order receives image id k, so
\* the ids of the `images` entries are 1, 2, ..., n and skipped entries
\* consume no id.
C1_ImageIdsAreRanks ==
    \A k \in 1..Len(coco.images) : coco.images[k].id = k

\* C2: at every point of the run and in the written document, the ids of
\* `annotations` read in list order are 1, 2, ..., m, the counter is one past
\* the last id and is never reset between images, and the list follows the
\* order in which the images are enumerated.
AnnIdsSequential(doc) ==
    /\ \A k \in 1..Len(doc.annotations) : doc.annotations[k].id = k
    /\ \A k \in 2..Len(doc.annotations) :
           doc.annotations[k - 1].image_id <= doc.annotations[k].image_id
C2_AnnotationIds ==
    /\ AnnIdsSequential(coco)
    /\ pc # "start" => ann_id = Len(coco.annotations) + 1
    /\ outFile.written => AnnIdsSequential(outFile.doc)

\* C2 witness: the written document holds annotations of two images.
C2_Witness ==
    /\ outFile.written
    /\ \E k \in 2..Len(outFile.doc.annotations) :
           outFile.doc.annotations[k - 1].image_id < outFile.doc.annotations[k].image_id

\* C3: every annotation's category_id is 1 + the index of its class name in
\* class_names, and is the id of the `categories` entry found by searching
\* `categories` for that name.
C3_CategoryIdIsFirstIndex ==
    \A im \in Range(coco.images) :
        \A t \in 1..Len(AnnsOfImage(coco, im.id)) :
            LET a == AnnsOfImage(coco, im.id)[t]
                name == FileObjects(im.file_name)[t].name
                found == CHOOSE c \in 1..Len(coco.categories) :
                             /\ coco.categories[c].name = name
                             /\ \A m \in 1..(c-1) : coco.categories[m].name # name
            IN  /\ a.category_id = FirstIndexPlusOne(class_names, name)
                /\ a.category_id = coco.categories[found].id

\* C4: every emitted annotation has bbox = [x1, y1, x2 - x1, y2 - y1] and
\* area = (x2 - x1) * (y2 - y1) for the corners of its source box, also when
\* x2 < x1 or y2 < y1, and the width and height of the `images` entries stay
\* those of the image.
BoxesExact(doc) ==
    \A im \in Range(doc.images) :
        /\ im.width = PixelSize(im.file_name)[1]
        /\ im.height = PixelSize(im.file_name)[2]
        /\ \A t \in 1..Len(AnnsOfImage(doc, im.id)) :
            LET a == AnnsOfImage(doc, im.id)[t]
                b == FileObjects(im.file_name)[t].bndbox
            IN  /\ a.bbox = <<PyInt(b.x1), PyInt(b.y1),
                              PyInt(b.x2) - PyInt(b.x1), PyInt(b.y2) - PyInt(b.y1)>>
                /\ a.area = (PyInt(b.x2) - PyInt(b.x1)) * (PyInt(b.y2) - PyInt(b.y1))
C4_BoxesExact ==
    /\ BoxesExact(coco)
    /\ outFile.written => BoxesExact(outFile.doc)

\* C4 witness: a written annotation of a box with x2 < x1.
C4_Witness ==
    /\ outFile.written
    /\ \E a \in Range(outFile.doc.annotations) : a.bbox[3] < 0 /\ a.area < 0

\* C5: after convert_to_voc completes, trainval.txt has one line per accepted
\* image file, in enumeration order, and no two lines are equal.
C5_TrainvalLinesDistinct ==
    (pc = "done" /\ trainval.written) =>
        LET lines == SplitLines(trainval.text) IN
        /\ Len(lines) = Cardinality(AcceptedPositions)
        /\ \A k \in 1..Len(lines) : lines[k] = BaseName(AcceptedPrefix(Len(listing))[k])
        /\ \A p, q \in 1..Len(lines) : p # q => lines[p] # lines[q]

\* C6: if an accepted image has no annotation file, a malformed object or an
\* object of a class not in class_names, the run ends in the error, no later
\* step is taken and output_path is never written; a written output file
\* means every accepted image was converted.
C6_NoOutputOnFailure ==
    /\ pc = "error" => (~outFile.written /\ err # "none" /\ ~ENABLED NextCoco)
    /\ outFile.written =>
           /\ pc = "done"
           /\ err = "none"
           /\ \A k \in AcceptedPositions :
                  /\ annDir[BaseName(listing[k])].state = "file"
                  /\ \A t \in 1..Len(FileObjects(listing[k])) :
                         ~ObjectFails(FileObjects(listing[k])[t])

\* C6 witness: a run that fails on an unknown class in its second image,
\* after annotations of the first were built.
C6_Witness ==
    /\ pc = "error"
    /\ err = "KeyError"
    /\ Len(coco.images) = 2
    /\ Len(coco.annotations) >= 1

\* C7: the written document has one `images` entry per entry of img_dir whose
\* lower-cased name ends in .png, .jpg or .jpeg, and none for other entries.
C7_ImagesCount ==
    outFile.written =>
        /\ Len(outFile.doc.images) = Cardinality(AcceptedPositions)
        /\ \A k \in 1..Len(outFile.doc.images) :
               outFile.doc.images[k].file_name = AcceptedPrefix(Len(listing))[k]

\* C7 witness: a written document for a listing with a skipped entry, an
\* upper-case extension and an image without objects.
C7_Witness ==
    /\ outFile.written
    /\ \E k \in 1..Len(listing) : ~HasImageExtension(listing[k])
    /\ \E im \in Range(outFile.doc.images) :
           im.file_name = F_a_PNG /\ AnnsOfImage(outFile.doc, im.id) = <<>>
    /\ Len(outFile.doc.images) >= 2

\* C8: the written document has as many annotations as there are <object>
\* elements in the annotation files of the accepted images, and the
\* annotations that reference an image are those of its annotation file.
C8_AnnotationsCount ==
    outFile.written =>
        /\ Len(outFile.doc.annotations) = SumObjects(AcceptedPrefix(Len(listing)))
        /\ \A im \in Range(outFile.doc.images) :
               /\ Len(AnnsOfImage(outFile.doc, im.id)) = Len(FileObjects(im.file_name))
               /\ \A t \in 1..Len(AnnsOfImage(outFile.doc, im.id)) :
                      /\ AnnsOfImage(outFile.doc, im.id)[t].bbox[1] =
                             PyInt(FileObjects(im.file_name)[t].bndbox.x1)
                      /\ AnnsOfImage(outFile.doc, im.id)[t].bbox[2] =
                             PyInt(FileObjects(im.file_name)[t].bndbox.y1)
        /\ \A a \in Range(outFile.doc.annotations) :
               \E im \in Range(outFile.doc.images) : im.id = a.image_id

\* C8 witness: a written document with two images that have different
\* numbers of objects, one of them two.
C8_Witness ==
    /\ outFile.written
    /\ \E im1, im2 \in Range(outFile.doc.images) :
           /\ Len(AnnsOfImage(outFile.doc, im1.id)) = 2
           /\ Len(AnnsOfImage(outFile.doc, im2.id)) = 1

\* C9: every generated Annotations/<id>.xml holds one object block per
\* annotation parsed from <ann_dir>/<id>.xml, in file order, and reading it
\* back yields the boxes of the source file.
C9_VocRoundTrip ==
    \A id \in DOMAIN vocFiles :
        /\ annDir[id].state = "file"
        /\ Len(vocFiles[id].objects) = Len(annDir[id].objects)
        /\ ReadBack(vocFiles[id]) = ParseHalconAnnotation(annDir[id]).anns
        /\ \A k \in 1..Len(vocFiles[id].objects) :
               /\ vocFiles[id].objects[k].name = annDir[id].objects[k].name
               /\ PyInt(vocFiles[id].objects[k].bndbox.xmin) = PyInt(annDir[id].objects[k].bndbox.x1)
               /\ PyInt(vocFiles[id].objects[k].bndbox.ymin) = PyInt(annDir[id].objects[k].bndbox.y1)
               /\ PyInt(vocFiles[id].objects[k].bndbox.xmax) = PyInt(annDir[id].objects[k].bndbox.x2)
               /\ PyInt(vocFiles[id].objects[k].bndbox.ymax) = PyInt(annDir[id].objects[k].bndbox.y2)

\* C9 witness: a generated file with two object blocks, one with a negative
\* corner.
C9_Witness ==
    \E id \in DOMAIN vocFiles :
        /\ Len(vocFiles[id].objects) = 2
        /\ \E k \in 1..2 : vocFiles[id].objects[k].bndbox.ymin = <<"-", "3">>

\* C10: when an accepted image's annotation file is missing or malformed the
\* export stops there: the Annotations files written are those of the
\* accepted images before it, trainval.txt is not written, the three
\* directories exist; and trainval.txt never lists an id whose Annotations
\* file was not written in the run.
C10_VocAbort ==
    /\ (pc = "error" /\ err # "OSError") =>
           /\ ParseFails(BaseName(listing[i]))
           /\ ~trainval.written
           /\ dirs = VocDirs
           /\ vocWritten = [k \in 1..Len(AcceptedPrefix(i - 1)) |->
                               BaseName(AcceptedPrefix(i - 1)[k])]
           /\ DOMAIN vocFiles = Range(vocWritten)
           /\ ~ENABLED NextVoc
    /\ trainval.written =>
           \A k \in 1..Len(SplitLines(trainval.text)) :
               SplitLines(trainval.text)[k] \in Range(vocWritten)

\* C10 witness: the export fails on a missing annotation file after an
\* Annotations file was written.
C10_Witness ==
    /\ pc = "error"
    /\ err = "FileNotFoundError"
    /\ Len(vocWritten) >= 1

====
